---- MODULE Spec2Model ----
(***************************************************************************)
(* pg-dump-cache server: the cache/refresh coordinator, the generator,     *)
(* the retention pass and the HTTP handlers, as a state machine.           *)
(*                                                                         *)
(* The server is one JavaScript event loop.  A handler runs without        *)
(* interruption up to its next `await` on I/O; continuations of a settled  *)
(* promise (microtasks) run, in the order they were attached, before any   *)
(* other I/O callback or request is handled.  Each action below is one     *)
(* such uninterrupted stretch of code.                                     *)
(***************************************************************************)
EXTENDS Integers, Sequences, FiniteSets, Bags, TLC

(* ------------------------------ bounds -------------------------------- *)
MaxReq == 2       \* HTTP requests being handled at one time
MaxGen == 2       \* doRefresh calls that can be told apart at one time
MaxTicks == 1     \* clock advances in one run
MaxKeep == 2      \* KEEP_COUNT ranges over 1..MaxKeep

(* ----------------------------- constants ------------------------------ *)
MsPerSec == 1000                 \* getCacheAgeSeconds divides by 1000
TickMs == MsPerSec \div 2        \* granularity of the modelled clock
StartMs == MsPerSec              \* Date.now() when the process starts
TTLs == {0, 1}                   \* ttl values (seconds) a request may carry
NoPromise == 0                   \* refreshPromise = null
Gen == 1..MaxGen

VARIABLES
  now,             \* Date.now(), milliseconds
  store,           \* the files in CACHE_DIR
  KEEP_COUNT,      \* configuration, fixed at start
  latestCache,     \* CacheEntry | null
  refreshing,      \* boolean
  refreshPromise,  \* the doRefresh call whose promise is in flight, or NoPromise
  runs,            \* per doRefresh call in progress: where it is, what it holds
  waiters,         \* per promise: the callers awaiting it, in attach order
  micro,           \* continuations released by a settled promise, in order
  main,            \* top-level code: "load", "initial", "serving", "crashed"
  pending,         \* bag of GET /dump handlers at `await file.exists()`
  resp,            \* the response sent by the step just taken, if any
  ended,           \* the refresh attempt that ended in the step just taken, if any
  ticks,           \* number of clock advances so far
  oob              \* an out-of-band change of the store has happened

vars == <<now, store, KEEP_COUNT, latestCache, refreshing, refreshPromise, runs,
          waiters, micro, main, pending, resp, ended, ticks, oob>>

coord == <<refreshing, refreshPromise, runs, waiters>>

(* ------------------------------ file names ---------------------------- *)
\* A file name is pre ++ "0"*pad ++ decimal(num) ++ suf; num = -1 stands for
\* a middle part that is not all digits.
FileName(pre, pad, num, suf) == [pre |-> pre, pad |-> pad, num |-> num, suf |-> suf]
NoFile == FileName("", 0, -1, "")

\* f.endsWith(".tar.gz")
endsWithTarGz(f) == f.suf = ".tar.gz"

\* f.match(/^dump-(\d+)\.tar\.gz$/)
matchDump(f) == f.pre = "dump-" /\ f.num >= 0 /\ f.suf = ".tar.gz"

\* Number(match[1]): leading zeros do not count
parseTimestamp(f) == f.num

\* `dump-${timestamp.getTime()}.tar.gz`
dumpFileName(t) == FileName("dump-", 0, t, ".tar.gz")

(* ------------------------------ cache entry --------------------------- *)
CacheEntry(p, t) == [path |-> p, timestamp |-> t]
NoEntry == CacheEntry(NoFile, -1)

\* seconds as a rational: ms / MsPerSec, or +Infinity
getCacheAgeSeconds ==
  IF latestCache = NoEntry
    THEN [inf |-> TRUE, ms |-> 0]
    ELSE [inf |-> FALSE, ms |-> now - latestCache.timestamp]

\* age >= ttl in place of age > ttl
GreaterThan_OrEqual(age, ttl) == age.inf \/ age.ms >= ttl * MsPerSec

\* age > ttl, age in the representation above, ttl in seconds
GreaterThan(age, ttl) == age.inf \/ age.ms > ttl * MsPerSec

needsRefresh(ttl) == latestCache = NoEntry \/ GreaterThan(getCacheAgeSeconds, ttl)

\* Math.round of a finite age: the nearest integer, halves going up
round(age) == (2 * age.ms + MsPerSec) \div (2 * MsPerSec)

\* GET /status: latestCache ? Math.round(getCacheAgeSeconds()) : null (-1)
cacheAgeSeconds == IF latestCache = NoEntry THEN -1 ELSE round(getCacheAgeSeconds)

(* ------------------------------ sorting ------------------------------- *)
\* the files readdir returned that pass both filters
dumpFilesOf(files) == {f \in files : endsWithTarGz(f) /\ matchDump(f)}

\* the comparator turned round: every order that is ascending by timestamp
RECURSIVE SortedAsc(_)
SortedAsc(S) ==
  IF S = {} THEN {<<>>}
  ELSE UNION {{<<f>> \o t : t \in SortedAsc(S \ {f})} :
              f \in {x \in S : \A y \in S : parseTimestamp(x) <= parseTimestamp(y)}}

\* Array.prototype.sort with (a, b) => b.timestamp - a.timestamp is stable and
\* readdir's order is arbitrary: every order that is descending by timestamp.
RECURSIVE SortedDesc(_)
SortedDesc(S) ==
  IF S = {} THEN {<<>>}
  ELSE UNION {{<<f>> \o t : t \in SortedDesc(S \ {f})} :
              f \in {x \in S : \A y \in S : parseTimestamp(x) >= parseTimestamp(y)}}

\* slice that starts one element early
slice_OneEarly(s, k) == IF k - 1 >= Len(s) THEN <<>> ELSE SubSeq(s, k, Len(s))

\* Array.prototype.slice(k) for an integer k >= 0
slice(s, k) == IF k >= Len(s) THEN <<>> ELSE SubSeq(s, k + 1, Len(s))


(* ------------------------------ records ------------------------------- *)
\* A doRefresh call in progress: the timestamp performDump took, the files
\* readdir returned and the rest of the rm loop.  before and published are
\* history: the value of latestCache when the call started, and whether the
\* call has assigned latestCache.
NoRun == [phase |-> "none", timestamp |-> -1, files |-> {}, toDelete |-> <<>>,
          before |-> NoEntry, published |-> FALSE]

NoEnd == [outcome |-> "none", run |-> NoRun, released |-> 0]

\* A request: its parameters, where its handler is, and its response.
\* cause and started are history: the step of doRefresh whose error the
\* response reports, and whether the request's triggerRefresh started a
\* generation.  mark singles out one call of ensureFreshCache to follow.
NewReq == [kind |-> "none", ttl |-> 0, pos |-> "new", file |-> NoFile,
           status |-> 0, hdrName |-> NoFile, hdrTs |-> -1,
           hasCache |-> FALSE, repRefreshing |-> FALSE, cause |-> "none",
           retryable |-> FALSE, age |-> -1, found |-> FALSE, started |-> FALSE,
           mark |-> FALSE]

\* The top-level module code as a caller of ensureFreshCache.
MainCaller == [NewReq EXCEPT !.kind = "main"]

Active(g) == runs[g].phase # "none"

FreeGen == {g \in Gen : ~Active(g)}

\* requests whose handler has started and not finished
InFlight ==
  BagCardinality(pending)
  + Cardinality({i \in 1..Len(micro) : micro[i].w.kind # "main"})
  + Cardinality({<<g, i>> \in Gen \X (1..MaxReq) :
                   i <= Len(waiters[g]) /\ waiters[g][i].kind # "main"})

(* ------------------------------ start --------------------------------- *)
\* what an earlier run of the server may have left in CACHE_DIR
InitFiles == {dumpFileName(TickMs)}

Init ==
  /\ now = StartMs
  /\ store \in SUBSET InitFiles
  /\ KEEP_COUNT \in 1..MaxKeep
  /\ latestCache = NoEntry
  /\ refreshing = FALSE
  /\ refreshPromise = NoPromise
  /\ runs = [g \in Gen |-> NoRun]
  /\ waiters = [g \in Gen |-> <<>>]
  /\ micro = <<>>
  /\ main = "load"
  /\ pending = EmptyBag
  /\ resp = NewReq
  /\ ended = NoEnd
  /\ ticks = 0
  /\ oob = FALSE

Alive == main # "crashed"

\* What the last step put out (an HTTP response, the outcome of a refresh)
\* has left the process.
Quiet == resp = NewReq /\ ended = NoEnd

(* ------------------------- refresh coordinator ------------------------ *)
\* doRefresh() up to the first await of performDump, and the registration of
\* the finally callback: the timestamp is taken, pg_dump is spawned, and the
\* promise gets the waiters ws (the caller itself, or nobody).
doRefreshStart(ws) ==
  /\ FreeGen # {}
  /\ LET g == CHOOSE x \in FreeGen : \A y \in FreeGen : x <= y IN
       /\ runs' = [runs EXCEPT ![g] =
                     [phase |-> "dump", timestamp |-> now, files |-> {},
                      toDelete |-> <<>>, before |-> latestCache, published |-> FALSE]]
       /\ refreshing' = TRUE
       /\ refreshPromise' = g
       /\ waiters' = [waiters EXCEPT ![g] = ws]

\* ensureFreshCache without the while loop that waits for a running refresh
ensureFreshCache_NoLoop(w, ttl, pos) ==
  \/ /\ ~needsRefresh(ttl)
     /\ pos = "return"
     /\ UNCHANGED coord
  \/ /\ needsRefresh(ttl)
     /\ pos = "own"
     /\ doRefreshStart(<<[w EXCEPT !.pos = pos]>>)

\* ensureFreshCache(ttl) from its first line to its first await or return.
\* pos is where the caller w is afterwards: "join" (awaiting at the while
\* loop), "own" (awaiting the refresh it started) or "return".
ensureFreshCache(w, ttl, pos) ==
  \/ /\ refreshing
     /\ refreshPromise # NoPromise
     /\ pos = "join"
     /\ waiters' = [waiters EXCEPT ![refreshPromise] = Append(@, [w EXCEPT !.pos = pos])]
     /\ UNCHANGED <<refreshing, refreshPromise, runs>>
  \/ /\ ~refreshing
     /\ ~needsRefresh(ttl)
     /\ pos = "return"
     /\ UNCHANGED coord
  \/ /\ ~refreshing
     /\ needsRefresh(ttl)
     /\ pos = "own"
     /\ doRefreshStart(<<[w EXCEPT !.pos = pos]>>)

\* triggerRefresh without the test of `refreshing`
triggerRefresh_NoFlagTest(ttl) ==
  IF ~needsRefresh(ttl)
    THEN UNCHANGED coord
    ELSE doRefreshStart(<<>>)

triggerRefresh(ttl) ==
  IF refreshing \/ ~needsRefresh(ttl)
    THEN UNCHANGED coord
    ELSE doRefreshStart(<<>>)

\* An unhandled promise rejection: the runtime may end the process.
UnhandledRejection == main' \in {main, "crashed"}

\* a finally callback that clears nothing
Settle_KeepsFlag(g, ok, run) ==
  /\ refreshing' = refreshing
  /\ refreshPromise' = refreshPromise
  /\ runs' = [runs EXCEPT ![g] = NoRun]
  /\ micro' = [i \in 1..Len(waiters[g]) |->
                 [w |-> waiters[g][i], ok |-> ok,
                  cause |-> IF ok THEN "none" ELSE run.phase,
                  timestamp |-> run.timestamp]]
  /\ waiters' = [waiters EXCEPT ![g] = <<>>]
  /\ ended' = [outcome |-> IF ok THEN "ok" ELSE "failed", run |-> run,
               released |-> Len(waiters[g])]
  /\ IF ~ok /\ waiters[g] = <<>>
       THEN UnhandledRejection
       ELSE main' = main

\* a finally callback that clears `refreshing` only
Settle_KeepsPromise(g, ok, run) ==
  /\ refreshing' = FALSE
  /\ refreshPromise' = refreshPromise
  /\ runs' = [runs EXCEPT ![g] = NoRun]
  /\ micro' = [i \in 1..Len(waiters[g]) |->
                 [w |-> waiters[g][i], ok |-> ok,
                  cause |-> IF ok THEN "none" ELSE run.phase,
                  timestamp |-> run.timestamp]]
  /\ waiters' = [waiters EXCEPT ![g] = <<>>]
  /\ ended' = [outcome |-> IF ok THEN "ok" ELSE "failed", run |-> run,
               released |-> Len(waiters[g])]
  /\ IF ~ok /\ waiters[g] = <<>>
       THEN UnhandledRejection
       ELSE main' = main

\* The promise of attempt g settles: the finally callback clears the flags,
\* then the waiters are released in attach order.  run is what the attempt
\* held when it ended; a released continuation remembers (history) the step
\* that failed and the timestamp the attempt took.
Settle(g, ok, run) ==
  /\ refreshing' = FALSE
  /\ refreshPromise' = NoPromise
  /\ runs' = [runs EXCEPT ![g] = NoRun]
  /\ micro' = [i \in 1..Len(waiters[g]) |->
                 [w |-> waiters[g][i], ok |-> ok,
                  cause |-> IF ok THEN "none" ELSE run.phase,
                  timestamp |-> run.timestamp]]
  /\ waiters' = [waiters EXCEPT ![g] = <<>>]
  /\ ended' = [outcome |-> IF ok THEN "ok" ELSE "failed", run |-> run,
               released |-> Len(waiters[g])]
  /\ IF ~ok /\ waiters[g] = <<>>
       THEN UnhandledRejection
       ELSE main' = main

(* ------------------------------ startup ------------------------------- *)
\* loadExistingDumps, then the top-level `if (!latestCache)`.
loadExistingDumps ==
  /\ main = "load"
  /\ \E order \in SortedDesc(dumpFilesOf(store)) :
       IF order # <<>>
         THEN /\ latestCache' = CacheEntry(order[1], parseTimestamp(order[1]))
              /\ main' = "serving"
              /\ UNCHANGED coord
         ELSE /\ latestCache' = latestCache
              /\ main' = "initial"
              /\ ensureFreshCache(MainCaller, 0, "own")
  /\ resp' = NewReq /\ ended' = NoEnd
  /\ UNCHANGED <<now, store, KEEP_COUNT, micro, pending, ticks, oob>>

(* ------------------------------ performDump --------------------------- *)
\* pg_dump exits with a non-zero code.
DumpExitFail(g) ==
  /\ Alive /\ Quiet /\ micro = <<>>
  /\ runs[g].phase = "dump"
  /\ Settle(g, FALSE, runs[g])
  /\ resp' = NewReq
  /\ UNCHANGED <<now, store, KEEP_COUNT, latestCache, pending, ticks, oob>>

\* Bun.write fails; what it wrote so far may stay in the directory.
DumpWriteFail(g) ==
  /\ Alive /\ Quiet /\ micro = <<>>
  /\ runs[g].phase = "dump"
  /\ store' \in {store, store \cup {dumpFileName(runs[g].timestamp)}}
  /\ Settle(g, FALSE, runs[g])
  /\ resp' = NewReq
  /\ UNCHANGED <<now, KEEP_COUNT, latestCache, pending, ticks, oob>>

\* pg_dump exits with 0 and the file is written: performDump returns the
\* entry, doRefresh publishes it and calls cleanupOldDumps (readdir pending).
\* Dumping and writing take time: the clock has moved on since line 57.
DumpOk(g) ==
  /\ Alive /\ Quiet /\ micro = <<>>
  /\ runs[g].phase = "dump"
  /\ now > runs[g].timestamp
  /\ store' = store \cup {dumpFileName(runs[g].timestamp)}
  /\ latestCache' = CacheEntry(dumpFileName(runs[g].timestamp), runs[g].timestamp)
  /\ runs' = [runs EXCEPT ![g].phase = "readdir", ![g].published = TRUE]
  /\ resp' = NewReq /\ ended' = NoEnd
  /\ UNCHANGED <<now, KEEP_COUNT, refreshing, refreshPromise, waiters, micro, main,
                 pending, ticks, oob>>

(* ---------------------------- cleanupOldDumps ------------------------- *)
\* readdir fails.
ReaddirFail(g) ==
  /\ Alive /\ Quiet /\ micro = <<>>
  /\ runs[g].phase = "readdir"
  /\ Settle(g, FALSE, runs[g])
  /\ resp' = NewReq
  /\ UNCHANGED <<now, store, KEEP_COUNT, latestCache, pending, ticks, oob>>

\* readdir returns: filter, map, sort, slice(KEEP_COUNT); the first rm is
\* issued, or the loop is empty and the refresh completes.
Readdir(g) ==
  /\ Alive /\ Quiet /\ micro = <<>>
  /\ runs[g].phase = "readdir"
  /\ \E order \in SortedDesc(dumpFilesOf(store)) :
       LET toDelete == slice(order, KEEP_COUNT) IN
       IF toDelete = <<>>
         THEN Settle(g, TRUE, [runs[g] EXCEPT !.files = store])
         ELSE /\ runs' = [runs EXCEPT ![g].phase = "rm", ![g].files = store,
                                       ![g].toDelete = toDelete]
              /\ ended' = NoEnd
              /\ UNCHANGED <<refreshing, refreshPromise, waiters, micro, main>>
  /\ resp' = NewReq
  /\ UNCHANGED <<now, store, KEEP_COUNT, latestCache, pending, ticks, oob>>

\* rm(path) succeeds; the next rm is issued, or the refresh completes.
RmOk(g) ==
  /\ Alive /\ Quiet /\ micro = <<>>
  /\ runs[g].phase = "rm"
  /\ Head(runs[g].toDelete) \in store
  /\ store' = store \ {Head(runs[g].toDelete)}
  /\ IF Tail(runs[g].toDelete) = <<>>
       THEN Settle(g, TRUE, runs[g])
       ELSE /\ runs' = [runs EXCEPT ![g].toDelete = Tail(@)]
            /\ ended' = NoEnd
            /\ UNCHANGED <<refreshing, refreshPromise, waiters, micro, main>>
  /\ resp' = NewReq
  /\ UNCHANGED <<now, KEEP_COUNT, latestCache, pending, ticks, oob>>

\* rm(path) rejects (the file is gone, or an I/O error): cleanupOldDumps
\* and doRefresh reject.
RmFail(g) ==
  /\ Alive /\ Quiet /\ micro = <<>>
  /\ runs[g].phase = "rm"
  /\ Settle(g, FALSE, runs[g])
  /\ resp' = NewReq
  /\ UNCHANGED <<now, store, KEEP_COUNT, latestCache, pending, ticks, oob>>

(* ------------------------------ fetch handler ------------------------- *)
\* A request arrives once Bun.serve is running.
Arrives ==
  /\ main = "serving" /\ Quiet /\ micro = <<>>
  /\ InFlight < MaxReq

\* GET /dump from `if (!latestCache)` to `await file.exists()`.  found is
\* what the file system answers if it looks at once.
ServeBegin(rec) ==
  IF latestCache = NoEntry
    THEN [rec EXCEPT !.pos = "done", !.status = 503, !.retryable = TRUE]
    ELSE [rec EXCEPT !.pos = "exists", !.ttl = 0, !.file = latestCache.path,
                     !.found = (latestCache.path \in store)]

\* POST /refresh after `await ensureFreshCache(0)` returned.
RefreshDone(rec) ==
  [rec EXCEPT !.pos = "done", !.status = 200, !.hdrTs = latestCache.timestamp]

\* What a handler does once ensureFreshCache has left the caller at pos.
AfterEnsure(rec, pos) ==
  IF pos # "return" THEN [rec EXCEPT !.pos = pos]
  ELSE IF rec.kind = "refresh" THEN RefreshDone(rec)
  ELSE ServeBegin(rec)

\* The handler is at rec: a finished handler sends its response, one at
\* `await file.exists()` is kept in pending (one awaiting a refresh is kept
\* with the promise's waiters by ensureFreshCache).
Deliver(rec) ==
  /\ resp' = IF rec.pos = "done" THEN rec ELSE NewReq
  /\ pending' = IF rec.pos = "exists" THEN pending (+) SetToBag({rec}) ELSE pending

\* GET /status with `hasCache: true` whatever latestCache is
GetStatus_AlwaysHasCache ==
  /\ Arrives
  /\ Deliver([NewReq EXCEPT !.kind = "status", !.pos = "done", !.status = 200,
                            !.hasCache = TRUE,
                            !.hdrTs = latestCache.timestamp,
                            !.age = cacheAgeSeconds,
                            !.repRefreshing = refreshing])
  /\ ended' = NoEnd
  /\ UNCHANGED <<now, store, KEEP_COUNT, latestCache, refreshing, refreshPromise,
                 runs, waiters, micro, main, ticks, oob>>

\* GET /status
GetStatus ==
  /\ Arrives
  /\ Deliver([NewReq EXCEPT !.kind = "status", !.pos = "done", !.status = 200,
                            !.hasCache = (latestCache # NoEntry),
                            !.hdrTs = latestCache.timestamp,
                            !.age = cacheAgeSeconds,
                            !.repRefreshing = refreshing])
  /\ ended' = NoEnd
  /\ UNCHANGED <<now, store, KEEP_COUNT, latestCache, refreshing, refreshPromise,
                 runs, waiters, micro, main, ticks, oob>>

\* GET /dump without wait=true
GetDump(ttl) ==
  /\ Arrives
  /\ triggerRefresh(ttl)
  /\ Deliver(ServeBegin([NewReq EXCEPT !.kind = "dump", !.ttl = ttl,
                                       !.started = (runs' # runs)]))
  /\ ended' = NoEnd
  /\ UNCHANGED <<now, store, KEEP_COUNT, latestCache, micro, main, ticks, oob>>

\* GET /dump?wait=true
GetDumpWait(ttl) ==
  /\ Arrives
  /\ \E pos \in {"join", "own", "return"} :
       /\ ensureFreshCache([NewReq EXCEPT !.kind = "dumpWait", !.ttl = ttl], ttl, pos)
       /\ Deliver(AfterEnsure([NewReq EXCEPT !.kind = "dumpWait", !.ttl = ttl], pos))
  /\ ended' = NoEnd
  /\ UNCHANGED <<now, store, KEEP_COUNT, latestCache, micro, main, ticks, oob>>

\* POST /refresh without the `if (refreshing)` answer
PostRefresh_NoBusyTest ==
  /\ Arrives
  /\ \E pos \in {"join", "own", "return"} :
       /\ ensureFreshCache([NewReq EXCEPT !.kind = "refresh"], 0, pos)
       /\ Deliver(AfterEnsure([NewReq EXCEPT !.kind = "refresh"], pos))
  /\ ended' = NoEnd
  /\ UNCHANGED <<now, store, KEEP_COUNT, latestCache, micro, main, ticks, oob>>

\* POST /refresh
PostRefresh ==
  /\ Arrives
  /\ IF refreshing
       THEN /\ Deliver([NewReq EXCEPT !.kind = "refresh", !.pos = "done",
                                      !.status = 409])
            /\ UNCHANGED coord
       ELSE \E pos \in {"join", "own", "return"} :
              /\ ensureFreshCache([NewReq EXCEPT !.kind = "refresh"], 0, pos)
              /\ Deliver(AfterEnsure([NewReq EXCEPT !.kind = "refresh"], pos))
  /\ ended' = NoEnd
  /\ UNCHANGED <<now, store, KEEP_COUNT, latestCache, micro, main, ticks, oob>>

\* the missing-file branch without `latestCache = null`
ExistsDone_NoInvalidate(rec) ==
  /\ Alive /\ Quiet /\ micro = <<>>
  /\ BagIn(rec, pending)
  /\ pending' = pending (-) SetToBag({rec})
  /\ latestCache' = latestCache
  /\ \E exists \in {rec.found, rec.file \in store} :
       LET r == [rec EXCEPT !.found = exists] IN
       resp' = IF ~exists
                 THEN [r EXCEPT !.pos = "done", !.status = 503, !.retryable = TRUE]
               ELSE IF latestCache = NoEntry
                 THEN [r EXCEPT !.pos = "done", !.status = 500]
               ELSE [r EXCEPT !.pos = "done", !.status = 200,
                              !.hdrName = latestCache.path,
                              !.hdrTs = latestCache.timestamp]
  /\ ended' = NoEnd
  /\ UNCHANGED <<now, store, KEEP_COUNT, refreshing, refreshPromise, runs, waiters,
                 micro, main, ticks, oob>>

\* `await file.exists()` returns, in a later turn of the event loop; the
\* file system has looked at some instant since the call, here the first
\* or the last one.  The 503 "Cache file missing" branch, or the 200
\* response, whose headers read latestCache again (a TypeError when it is
\* null by then, which the server answers with 500).
ExistsDone(rec) ==
  /\ Alive /\ Quiet /\ micro = <<>>
  /\ BagIn(rec, pending)
  /\ pending' = pending (-) SetToBag({rec})
  /\ \E exists \in {rec.found, rec.file \in store} :
       LET r == [rec EXCEPT !.found = exists] IN
       IF ~exists
         THEN /\ latestCache' = NoEntry
              /\ resp' = [r EXCEPT !.pos = "done", !.status = 503,
                                   !.retryable = TRUE]
         ELSE /\ latestCache' = latestCache
              /\ resp' = IF latestCache = NoEntry
                           THEN [r EXCEPT !.pos = "done", !.status = 500]
                           ELSE [r EXCEPT !.pos = "done", !.status = 200,
                                          !.hdrName = latestCache.path,
                                          !.hdrTs = latestCache.timestamp]
  /\ ended' = NoEnd
  /\ UNCHANGED <<now, store, KEEP_COUNT, refreshing, refreshPromise, runs, waiters,
                 micro, main, ticks, oob>>

(* ------------------------- released continuations --------------------- *)
\* The top-level `await ensureFreshCache(0)` continues: Bun.serve starts, or
\* the rejection ends the process.
ResumeMain ==
  /\ Alive /\ Quiet /\ micro # <<>>
  /\ Head(micro).w.kind = "main"
  /\ micro' = Tail(micro)
  /\ main' = IF Head(micro).ok THEN "serving" ELSE "crashed"
  /\ resp' = NewReq /\ ended' = NoEnd
  /\ UNCHANGED <<now, store, KEEP_COUNT, latestCache, refreshing, refreshPromise,
                 runs, waiters, pending, ticks, oob>>

\* A request's `await refreshPromise` continues.  A rejection is thrown out
\* of ensureFreshCache into the handler's catch.  The starter of the refresh
\* returns; a joiner goes round the while loop.
Resume ==
  /\ Alive /\ Quiet /\ micro # <<>>
  /\ Head(micro).w.kind # "main"
  /\ micro' = Tail(micro)
  /\ LET rec == Head(micro).w IN
     IF ~Head(micro).ok
       THEN /\ Deliver([rec EXCEPT !.pos = "done", !.status = 500,
                                     !.cause = Head(micro).cause])
            /\ UNCHANGED coord
       ELSE IF rec.pos = "own"
         THEN /\ Deliver(AfterEnsure(rec, "return"))
              /\ UNCHANGED coord
         ELSE \E pos \in {"join", "own", "return"} :
                /\ ensureFreshCache(rec, rec.ttl, pos)
                /\ Deliver(AfterEnsure(rec, pos))
  /\ ended' = NoEnd
  /\ UNCHANGED <<now, store, KEEP_COUNT, latestCache, main, ticks, oob>>

(* ------------------------------ environment --------------------------- *)
\* The clock moves on.  (A settled promise's continuations run at once:
\* a tick or a deletion between them is one just before the settling step.)
Tick ==
  /\ Alive /\ Quiet /\ micro = <<>>
  /\ ticks < MaxTicks
  /\ ticks' = ticks + 1
  /\ now' = now + TickMs
  /\ resp' = NewReq /\ ended' = NoEnd
  /\ UNCHANGED <<store, KEEP_COUNT, latestCache, refreshing, refreshPromise, runs,
                 waiters, micro, main, pending, oob>>

\* Somebody else removes a file from CACHE_DIR.
OobDelete(f) ==
  /\ Alive /\ Quiet /\ micro = <<>>
  /\ ~oob
  /\ f \in store
  /\ store' = store \ {f}
  /\ oob' = TRUE
  /\ resp' = NewReq /\ ended' = NoEnd
  /\ UNCHANGED <<now, KEEP_COUNT, latestCache, refreshing, refreshPromise, runs,
                 waiters, micro, main, pending, ticks>>

\* The response returned by a handler is sent, the outcome of a refresh is
\* logged; nothing else changes.
Emit ==
  /\ ~Quiet
  /\ resp' = NewReq /\ ended' = NoEnd
  /\ UNCHANGED <<now, store, KEEP_COUNT, latestCache, refreshing, refreshPromise,
                 runs, waiters, micro, main, pending, ticks, oob>>

(* ------------------------------ specification ------------------------- *)
AllFiles == InitFiles \cup {dumpFileName(StartMs + i * TickMs) : i \in 0..MaxTicks}

PendingRecs == {[NewReq EXCEPT !.kind = k, !.pos = "exists", !.file = f, !.found = b,
                              !.started = t] :
                  k \in {"dump", "dumpWait"}, f \in AllFiles, b \in BOOLEAN,
                  t \in BOOLEAN}

Next ==
  \/ loadExistingDumps
  \/ \E g \in Gen : DumpExitFail(g)
  \/ \E g \in Gen : DumpWriteFail(g)
  \/ \E g \in Gen : DumpOk(g)
  \/ \E g \in Gen : ReaddirFail(g)
  \/ \E g \in Gen : Readdir(g)
  \/ \E g \in Gen : RmOk(g)
  \/ \E g \in Gen : RmFail(g)
  \/ GetStatus
  \/ \E ttl \in TTLs : GetDump(ttl)
  \/ \E ttl \in TTLs : GetDumpWait(ttl)
  \/ PostRefresh
  \/ \E rec \in PendingRecs : ExistsDone(rec)
  \/ ResumeMain
  \/ Resume
  \/ Tick
  \/ \E f \in AllFiles : OobDelete(f)
  \/ Emit

Spec == Init /\ [][Next]_vars

(* ------------------------------ restart ------------------------------- *)
\* The process is stopped and started again on the same CACHE_DIR: the
\* module state is initial again (20-22), requests in progress are gone, a
\* Bun.write that was under way may leave its file; then loadExistingDumps
\* and the top-level `if (!latestCache)` run as at the first start.
Restart ==
  /\ main # "load" /\ Quiet /\ micro = <<>>
  /\ store' \in {store} \cup
                {store \cup {dumpFileName(runs[g].timestamp)} :
                   g \in {h \in Gen : runs[h].phase = "dump"}}
  /\ \E order \in SortedDesc(dumpFilesOf(store')) :
       IF order # <<>>
         THEN /\ latestCache' = CacheEntry(order[1], parseTimestamp(order[1]))
              /\ main' = "serving"
              /\ refreshing' = FALSE
              /\ refreshPromise' = NoPromise
              /\ runs' = [g \in Gen |-> NoRun]
              /\ waiters' = [g \in Gen |-> <<>>]
         ELSE /\ latestCache' = NoEntry
              /\ main' = "initial"
              /\ refreshing' = TRUE
              /\ refreshPromise' = 1
              /\ runs' = [g \in Gen |->
                            IF g = 1 THEN [NoRun EXCEPT !.phase = "dump",
                                                        !.timestamp = now]
                                     ELSE NoRun]
              /\ waiters' = [g \in Gen |->
                               IF g = 1 THEN <<[MainCaller EXCEPT !.pos = "own"]>>
                                        ELSE <<>>]
  /\ micro' = <<>>
  /\ pending' = EmptyBag
  /\ resp' = NewReq /\ ended' = NoEnd
  /\ UNCHANGED <<now, KEEP_COUNT, ticks, oob>>

NextRestart == Next \/ Restart

SpecRestart == Init /\ [][NextRestart]_vars

(* ------------------------- one call, followed ------------------------- *)
\* the calls of ensureFreshCache that have not returned or thrown
Calls ==
  {micro[i].w : i \in 1..Len(micro)}
    \cup UNION {{waiters[g][i] : i \in 1..Len(waiters[g])} : g \in Gen}

Watching == \E w \in Calls : w.mark

\* GET /dump?wait=true, its call of ensureFreshCache(ttl) marked
WatchedDumpWait(ttl) ==
  /\ Arrives
  /\ ~Watching
  /\ LET w == [NewReq EXCEPT !.kind = "dumpWait", !.ttl = ttl, !.mark = TRUE] IN
     \E pos \in {"join", "own", "return"} :
       /\ ensureFreshCache(w, ttl, pos)
       /\ Deliver(AfterEnsure(w, pos))
  /\ ended' = NoEnd
  /\ UNCHANGED <<now, store, KEEP_COUNT, latestCache, micro, main, ticks, oob>>

\* POST /refresh past its 409 test, its call of ensureFreshCache(0) marked
WatchedRefresh ==
  /\ Arrives
  /\ ~Watching
  /\ ~refreshing
  /\ LET w == [NewReq EXCEPT !.kind = "refresh", !.mark = TRUE] IN
     \E pos \in {"join", "own", "return"} :
       /\ ensureFreshCache(w, 0, pos)
       /\ Deliver(AfterEnsure(w, pos))
  /\ ended' = NoEnd
  /\ UNCHANGED <<now, store, KEEP_COUNT, latestCache, micro, main, ticks, oob>>

WatchedRecs == {[rec EXCEPT !.mark = TRUE] : rec \in PendingRecs}

NextLive ==
  \/ Next
  \/ \E ttl \in TTLs : WatchedDumpWait(ttl)
  \/ WatchedRefresh
  \/ \E rec \in WatchedRecs : ExistsDone(rec)

\* Every generation and every pruning step terminates, released
\* continuations run, responses are sent.  The steps are atomic here, so
\* one that is ready is not ready all the time: the fairness is strong.
Fairness ==
  /\ SF_vars(\E g \in Gen : DumpOk(g) \/ DumpExitFail(g) \/ DumpWriteFail(g))
  /\ SF_vars(\E g \in Gen : Readdir(g) \/ ReaddirFail(g))
  /\ SF_vars(\E g \in Gen : RmOk(g) \/ RmFail(g))
  /\ SF_vars(Resume)
  /\ SF_vars(ResumeMain)
  /\ SF_vars(Emit)

SpecLive == Init /\ [][NextLive]_vars /\ Fairness

(* ------------------- the pruning pass on any directory --------------- *)
\* Files somebody may have put into CACHE_DIR: artifacts, one with a leading
\* zero (the same instant as another), and names the filters reject.
PruneFiles ==
  {dumpFileName(0), dumpFileName(TickMs), FileName("dump-", 1, TickMs, ".tar.gz"),
   FileName("backup-", 0, TickMs, ".tar.gz"), FileName("dump-", 0, 0, ".txt"),
   FileName("dump-", 0, -1, ".tar.gz")}

\* The server was started on the directory S; its first refresh (the initial
\* one when S holds no artifact, else one started by triggerRefresh) has
\* just published its entry and is about to prune.
InitPrune ==
  /\ now = StartMs
  /\ KEEP_COUNT \in 1..MaxKeep
  /\ latestCache = CacheEntry(dumpFileName(StartMs), StartMs)
  /\ refreshing = TRUE
  /\ refreshPromise = 1
  /\ \E S \in SUBSET PruneFiles : \E order \in SortedDesc(dumpFilesOf(S)) :
        /\ store = S \cup {dumpFileName(StartMs)}
        /\ runs = [g \in Gen |->
                     IF g = 1
                       THEN [NoRun EXCEPT
                               !.phase = "readdir", !.timestamp = StartMs,
                               !.published = TRUE,
                               !.before = IF order = <<>> THEN NoEntry
                                          ELSE CacheEntry(order[1],
                                                          parseTimestamp(order[1]))]
                       ELSE NoRun]
        /\ main = IF order = <<>> THEN "initial" ELSE "serving"
        /\ waiters = [g \in Gen |->
                        IF g = 1 /\ order = <<>>
                          THEN <<[MainCaller EXCEPT !.pos = "own"]>> ELSE <<>>]
  /\ micro = <<>>
  /\ pending = EmptyBag
  /\ resp = NewReq
  /\ ended = NoEnd
  /\ ticks = 0
  /\ oob = FALSE

NextPrune ==
  \/ \E g \in Gen : ReaddirFail(g)
  \/ \E g \in Gen : Readdir(g)
  \/ \E g \in Gen : RmOk(g)
  \/ \E g \in Gen : RmFail(g)
  \/ ResumeMain
  \/ Emit

SpecPrune == InitPrune /\ [][NextPrune]_vars

(* ======================================================================= *)
(* Properties                                                              *)
(* ======================================================================= *)

\* C1: in every reachable state at most one generation (performDump) is
\* running, whatever the interleaving of ensureFreshCache and triggerRefresh
\* calls made by the requests.
C1_SingleGeneration == Cardinality({g \in Gen : runs[g].phase = "dump"}) <= 1

\* A generation is running while two callers wait for it.
C1_Witness == \E g \in Gen : runs[g].phase = "dump" /\ Len(waiters[g]) >= 2

\* C2: a caller that joined an in-flight refresh never starts a further
\* generation after it is released, so N calls issued while stale cause
\* exactly one generation, for every ttl.
C2_JoinerStartsNoGeneration ==
  [][Resume => \A g \in Gen : Active(g)' => Active(g)]_vars


\* C3: whenever a refresh attempt ends in failure, every caller waiting on
\* it receives the error and latestCache is the entry it was before the
\* attempt started.
C3_FailureLeavesCurrent ==
  ended.outcome = "failed" =>
    /\ latestCache = ended.run.before
    /\ \A i \in 1..Len(micro) : ~micro[i].ok

\* C4: the body file of a 200 response to GET /dump and the entry its
\* headers describe (file name, timestamp) are one and the same CacheEntry.
C4_ResponseOfOneEntry ==
  (resp.kind \in {"dump", "dumpWait"} /\ resp.status = 200) =>
    /\ resp.hdrName = resp.file
    /\ resp.hdrTs = parseTimestamp(resp.file)

\* C5: a refresh assigns the new entry to latestCache before pruning begins,
\* and (no out-of-band change of the store, clock not going back) pruning
\* never deletes the file latestCache points to, for every KEEP_COUNT >= 1.
C5_PublishedBeforePruning ==
  \A g \in Gen :
    runs[g].phase \in {"readdir", "rm"} =>
      /\ runs[g].published
      /\ latestCache \in {NoEntry, CacheEntry(dumpFileName(runs[g].timestamp),
                                              runs[g].timestamp)}
      /\ ~oob => \A i \in 1..Len(runs[g].toDelete) :
                    runs[g].toDelete[i] # latestCache.path

\* Pruning is deleting files while latestCache is set and KEEP_COUNT is 1.
C5_Witness ==
  \E g \in Gen : /\ runs[g].phase = "rm"
                 /\ latestCache # NoEntry
                 /\ KEEP_COUNT = 1
                 /\ ~oob

\* C6: a failure while deleting an old artifact never fails a request: no
\* GET /dump?wait=true or POST /refresh is answered with an error because
\* an rm of the pruning pass failed.
C6_DeletionFailureSwallowed ==
  resp.kind \in {"dumpWait", "refresh"} => ~(resp.status = 500 /\ resp.cause = "rm")


\* the artifacts of a directory listing, and the k newest of a set of them
IsArtifact(f) == f.pre = "dump-" /\ f.num >= 0 /\ f.suf = ".tar.gz"
Instant(f) == f.num
Newest(D, k) == {f \in D : Cardinality({h \in D : Instant(h) > Instant(f)}) < k}
DistinctInstants(D) == \A a, b \in D : a # b => Instant(a) # Instant(b)

\* C7: after a pruning pass in which no deletion failed, on a directory whose
\* artifacts have distinct creation instants, exactly the min(n, KEEP_COUNT)
\* newest artifacts remain, and every other file is still there.
C7_KeepsNewest ==
  LET listed == ended.run.files
      D == {f \in listed : IsArtifact(f)}
      n == Cardinality(D)
      kept == {f \in store : IsArtifact(f)}
  IN (ended.outcome = "ok" /\ DistinctInstants(D)) =>
       /\ kept = Newest(D, KEEP_COUNT)
       /\ Cardinality(kept) = IF n < KEEP_COUNT THEN n ELSE KEEP_COUNT
       /\ store \ kept = listed \ D

\* A pass has deleted artifacts and left the other files alone.
C7_Witness ==
  LET D == {f \in ended.run.files : IsArtifact(f)} IN
  /\ ended.outcome = "ok"
  /\ DistinctInstants(D)
  /\ Cardinality(D) > KEEP_COUNT
  /\ KEEP_COUNT > 1
  /\ \E f \in store : ~IsArtifact(f) /\ f.suf = ".tar.gz"

\* the spec's isStale(ttl), ttl in seconds
IsStale(ttl) == latestCache = NoEntry \/ now - latestCache.timestamp > ttl * MsPerSec

\* C8: needsRefresh(ttl) is true iff latestCache is absent or its age exceeds
\* ttl (an age of exactly ttl is not stale), and a call that evaluates it to
\* false changes no state.
C8_NeedsRefresh ==
  /\ [](\A ttl \in TTLs : needsRefresh(ttl) <=> IsStale(ttl))
  /\ [][\A ttl \in TTLs :
          (~refreshing /\ ~IsStale(ttl) /\ GetDumpWait(ttl)) =>
            UNCHANGED <<coord, latestCache, store, now>>]_vars

\* The entry is exactly one second old: not stale for ttl = 1, stale for
\* ttl = 0; a waiting GET /dump is at its file check and no refresh runs.
C8_Witness ==
  /\ latestCache # NoEntry
  /\ now - latestCache.timestamp = MsPerSec
  /\ ~needsRefresh(1)
  /\ needsRefresh(0)
  /\ ~refreshing
  /\ \E rec \in BagToSet(pending) : rec.kind = "dumpWait"

\* C9: triggerRefresh(ttl), called by GET /dump, changes nothing when a
\* refresh is in progress or the cache is not stale for ttl, starts exactly
\* one generation otherwise, and never waits: the handler goes on at once.
C9_TriggerRefresh ==
  [][\A ttl \in TTLs :
       GetDump(ttl) =>
         /\ IF refreshing \/ ~IsStale(ttl)
              THEN UNCHANGED <<coord, latestCache>>
              ELSE /\ Cardinality({g \in Gen : Active(g)'}) =
                        Cardinality({g \in Gen : Active(g)}) + 1
                   /\ refreshing'
         /\ \/ resp'.pos = "done"
            \/ BagCardinality(pending') = BagCardinality(pending) + 1
         /\ \A g \in Gen : \A i \in 1..Len(waiters'[g]) : waiters'[g][i].kind # "dump"]_vars

\* A generation started by triggerRefresh runs, nobody waiting for it, while
\* the GET /dump that started it has gone on to its file check.
C9_Witness ==
  \E g \in Gen : /\ runs[g].phase = "dump"
                 /\ waiters[g] = <<>>
                 /\ \E rec \in BagToSet(pending) : rec.kind = "dump"

\* C10: a failed refresh attempt never terminates the process.
C10_ProcessSurvives == main # "crashed"

C12_AbsentAnswered503 ==
  (resp.kind \in {"dump", "dumpWait"} /\ latestCache = NoEntry) =>
    (resp.status = 503 /\ resp.retryable)

\* C13: a POST /refresh that arrives while a refresh is in progress is
\* answered 409 in the same step, starts no generation and is not added to
\* the waiters; no GET /dump and no GET /status is ever answered 409.
C13_BusyOnlyForRefresh ==
  /\ [](resp.status = 409 => resp.kind = "refresh")
  /\ [][(refreshing /\ PostRefresh) =>
          /\ resp'.kind = "refresh" /\ resp'.status = 409
          /\ UNCHANGED <<coord, latestCache, pending>>]_vars

\* A POST /refresh has just been answered 409 while a generation runs.
C13_Witness ==
  /\ resp.kind = "refresh"
  /\ resp.status = 409
  /\ \E g \in Gen : runs[g].phase = "dump"

\* C14: GET /status leaves latestCache, refreshing, refreshPromise and the
\* store unchanged, is answered in the step it arrives in (it waits for
\* nothing), and reports hasCache true exactly when latestCache is set and
\* refreshing true exactly when a refresh is in flight.
C14_StatusReadsOnly ==
  [][GetStatus =>
       /\ UNCHANGED <<latestCache, coord, store, pending, micro>>
       /\ resp'.kind = "status" /\ resp'.pos = "done" /\ resp'.status = 200
       /\ resp'.hasCache <=> latestCache # NoEntry
       /\ resp'.repRefreshing <=> (\E g \in Gen : Active(g))]_vars

\* GET /status has just reported no cache and a refresh in progress.
C14_Witness ==
  /\ resp.kind = "status"
  /\ ~resp.hasCache
  /\ resp.repRefreshing
  /\ latestCache = NoEntry
  /\ refreshing

\* C15: in the state in which a refresh has just completed successfully,
\* GET /status reports hasCache true and cacheAgeSeconds 0 (the field is a
\* whole number of seconds), however long the generation took.
C15_FreshAtCompletion ==
  ended.outcome = "ok" => (latestCache # NoEntry /\ cacheAgeSeconds = 0)

\* C16: when an rm of the pruning pass fails, the pass goes on to the other
\* files outside the keep window: it does not end while a file it was to
\* delete has not been attempted.
C16_PruningGoesOn ==
  (ended.outcome = "failed" /\ ended.run.phase = "rm") =>
    Tail(ended.run.toDelete) = <<>>

\* C17: a file a GET /dump has taken from latestCache and found to exist is
\* still in the store when the request builds its 200 response: no pruning
\* pass deletes it in between, for every KEEP_COUNT >= 1 (nobody else
\* removes files).
C17_ServedFileNotPruned ==
  (~oob /\ resp.kind \in {"dump", "dumpWait"} /\ resp.status = 200 /\ resp.found)
    => resp.file \in store

\* C18: a GET /dump without wait=true that found an entry and started a
\* background generation is answered from the entry that was published when
\* it arrived, whatever becomes of that generation: never with 500, and a
\* 200 carries the file and the headers of that entry.
C18_TriggerServesCurrent ==
  (resp.kind = "dump" /\ resp.started /\ resp.file # NoFile) =>
    /\ resp.status # 500
    /\ resp.status = 200 => /\ resp.hdrName = resp.file
                            /\ resp.hdrTs = parseTimestamp(resp.file)

\* C19: a POST /refresh that arrives while no refresh is in progress starts
\* one generation and waits for it, starts no other before it responds, and
\* when it responds 200 latestCache is set and the cacheTimestamp returned
\* is the timestamp of the entry that generation produced.
C19_ForcedRefresh ==
  /\ [][(~refreshing /\ PostRefresh) =>
          /\ resp' = NewReq
          /\ \E g \in Gen : /\ ~Active(g) /\ runs'[g].phase = "dump"
                             /\ Len(waiters'[g]) = 1
                             /\ waiters'[g][1].kind = "refresh"]_vars
  /\ [][(micro # <<>> /\ Head(micro).w.kind = "refresh" /\ Resume) =>
          /\ UNCHANGED coord
          /\ resp'.kind = "refresh"
          /\ resp'.status = 200 =>
                /\ latestCache # NoEntry
                /\ resp'.hdrTs = Head(micro).timestamp]_vars

\* C20: in every reachable state `refreshing` is true exactly when
\* refreshPromise is set; both are cleared in the step in which a refresh
\* attempt completes, successfully or not; callers wait only on the attempt
\* in flight and are released in that step, all of them, not before.
C20_FlagAndPromise ==
  /\ [](refreshing <=> refreshPromise # NoPromise)
  /\ [](ended.outcome # "none" => (~refreshing /\ refreshPromise = NoPromise))
  /\ [](\A g \in Gen : waiters[g] # <<>> => (Active(g) /\ refreshPromise = g))
  /\ [][Len(micro') > Len(micro) =>
          /\ ended'.outcome # "none"
          /\ \E g \in Gen : /\ Active(g) /\ ~Active(g)'
                             /\ Len(micro') = Len(waiters[g])
                             /\ \A i \in 1..Len(micro') : micro'[i].w = waiters[g][i]
                             /\ waiters'[g] = <<>>]_vars

\* A refresh attempt has just failed and released two waiting callers.
C20_Witness ==
  /\ ended.outcome = "failed"
  /\ Len(micro) >= 2
  /\ ~refreshing

\* the artifacts of S with the largest creation instant
Largest(S) ==
  {f \in S : IsArtifact(f) /\ \A h \in S : IsArtifact(h) => Instant(h) <= Instant(f)}

\* C21: startup recovery sets latestCache to the artifact of the store with
\* the largest creation instant (null when there is none); so a restart at
\* a moment when no refresh is running and latestCache is set (and nobody
\* else has touched the store) recovers latestCache with the same path and
\* timestamp.
C21_RestartRecovers ==
  /\ [][(loadExistingDumps \/ Restart) =>
          IF Largest(store') = {}
            THEN latestCache' = NoEntry
            ELSE /\ latestCache'.path \in Largest(store')
                 /\ latestCache'.timestamp = Instant(latestCache'.path)]_vars
  /\ [][(~refreshing /\ latestCache # NoEntry /\ ~oob /\ Restart) =>
          latestCache' = latestCache]_vars

\* C22: latestCache is set to null only in a step in which the file it
\* points to is missing from the store: a GET /dump that checked the file
\* of an older entry does not invalidate the entry published meanwhile.
C22_InvalidatesOwnEntryOnly ==
  [][(latestCache # NoEntry /\ latestCache' = NoEntry) =>
       latestCache.path \notin store]_vars

\* C23: every generation and pruning pass terminating and scheduling being
\* fair, a call of ensureFreshCache(ttl) eventually returns or throws, for
\* every ttl (0 too), also while other callers keep joining and starting
\* refreshes.
C23_CallsTerminate == Watching ~> ~Watching

\* The followed call, with ttl = 0, has joined a refresh behind another
\* caller.
C23_Witness ==
  \E g \in Gen : /\ Len(waiters[g]) >= 2
                 /\ waiters[g][2].mark
                 /\ waiters[g][2].ttl = 0
                 /\ waiters[g][2].pos = "join"

====
